---- MODULE Spec2Model ----
(***************************************************************************)
(* PngCompress: the batch pipeline of the image compressor.                *)
(*                                                                         *)
(*   renderer (Dashboard.tsx): addFilesToQueue, processNewFiles, the       *)
(*       progress listener, handleClear, handleDeleteFile, React's queue   *)
(*       of setState updaters and the render that applies it;              *)
(*   main (ipc.ts): the scan-paths and compress-files handlers;            *)
(*   main (compressor.ts): processFiles, compressFile and the shared       *)
(*       p-limit limiter.                                                  *)
(*                                                                         *)
(* One action is one turn of an event loop: the code that runs between two *)
(* awaits, with every microtask it schedules.  File contents are modelled  *)
(* by their size in bytes; the transcoder and the failures of the          *)
(* filesystem are choices of the environment.                              *)
(***************************************************************************)
EXTENDS Integers, Sequences, FiniteSets, TLC

\* ------------------------------------------------------------------ bounds
MaxCalls == 2          \* addFilesToQueue calls (drops / file dialogs)
MaxDisturbances == 1   \* Clear clicks, row deletions and files removed from disk
MaxSize == 3           \* size of an image on disk and largest transcoder output, in bytes

\* ------------------------------------------------------- program constants
Concurrency == 3       \* pLimit(3)

SUPPORTED_EXTENSIONS == {".png", ".jpg", ".jpeg"}
imageExtensions == {".jpg", ".jpeg", ".png"}

\* ------------------------------------------------------------- filesystem
\* The tree the user works on: one directory with an image and a text file,
\* and three images beside it.
Dirs == {"d"}
FilePaths == {"d/a.png", "d/c.txt", "b.jpg", "e.png", "f.jpeg"}

\* fs.readdir(dir): the entries of a directory, in enumeration order.
DirEntries(dir) == IF dir = "d" THEN <<"d/a.png", "d/c.txt">> ELSE <<>>

\* path.extname(p).toLowerCase()
ExtName(p) ==
    CASE p = "d/a.png" -> ".png"
      [] p = "b.jpg"   -> ".jpg"
      [] p = "e.png"   -> ".png"
      [] p = "f.jpeg"  -> ".jpeg"
      [] p = "d/c.txt" -> ".txt"
      [] OTHER         -> ""

Range(s) == {s[i] : i \in 1..Len(s)}

RECURSIVE SelectSeqBy(_, _)
\* Array.prototype.filter with a membership test: the entries of s that are in
\* keep, order and repetitions preserved.
SelectSeqBy(s, keep) ==
    IF s = <<>> THEN <<>>
    ELSE (IF Head(s) \in keep THEN <<Head(s)>> ELSE <<>>) \o SelectSeqBy(Tail(s), keep)

VARIABLES
    fs,             \* file path -> size on disk, 0 when the file does not exist
    calls,          \* addFilesToQueue invocations
    files,          \* React state `files` as last rendered
    filesRef,       \* filesRef.current
    updates,        \* queued setFiles / setIsProcessing updaters, oldest first
    isProcessing,   \* React state `isProcessing` as last rendered
    unlistenRef,    \* unlistenRef.current: a listener id, or 0 for null
    listeners,      \* progress listeners attached to 'compression-progress'
    batches,        \* processNewFiles invocations with their compress-files call
    jobs,           \* the tasks handed to limit(), in submission order
    limitQueue,     \* p-limit's queue of tasks not yet started
    activeCount,    \* p-limit's activeCount
    channel,        \* progress events sent to the window, not yet delivered
    nextId,         \* source of fresh QueueItem ids
    clicks,         \* how often each bounded user / environment action happened
    optionsRef,     \* modeRef.current and qualityRef.current
    mainWindow,     \* main.ts `mainWindow`: the id of the open window, 0 for null
    ipcSetup,       \* main.ts `ipcSetup`
    ipcWindow,      \* the window setupIPC was called with
    windows,        \* how many BrowserWindows have been constructed
    handlers        \* how often ipcMain.handle('compress-files', ...) has run

vars == <<fs, calls, files, filesRef, updates, isProcessing, unlistenRef, listeners,
          batches, jobs, limitQueue, activeCount, channel, nextId, clicks,
          optionsRef, mainWindow, ipcSetup, ipcWindow, windows, handlers>>

\* ---------------------------------------------------- filesystem capability
\* fs.stat(p) succeeds: p is a directory, or a file that is on disk.
Exists(f, p) == p \in Dirs \/ (p \in FilePaths /\ f[p] > 0)

\* stat.isDirectory() / entry.isDirectory()
IsDirectory(p) == p \in Dirs

\* The entries fs.readdir(dir) returns: those of the directory that are on disk.
ReadDir(f, dir) == SelectSeqBy(DirEntries(dir), {e \in Range(DirEntries(dir)) : Exists(f, e)})

\* ------------------------------------------------------- scan-paths (ipc.ts)
RECURSIVE ipcScanEntries(_, _)
\* The loop over the entries of one directory.
ipcScanEntries(f, entries) ==
    IF entries = <<>> THEN <<>>
    ELSE LET e == Head(entries)
             here == IF IsDirectory(e) THEN ipcScanEntries(f, ReadDir(f, e))
                     ELSE IF ExtName(e) \in imageExtensions THEN <<e>> ELSE <<>>
         IN  here \o ipcScanEntries(f, Tail(entries))

\* scanDir of the scan-paths handler.
ipcScanDir(f, dir) == ipcScanEntries(f, ReadDir(f, dir))

RECURSIVE scanPaths(_, _)
\* The scan-paths handler: the image files the input paths expand to.  A path
\* whose stat fails is logged and left out.
scanPaths(f, inputPaths) ==
    IF inputPaths = <<>> THEN <<>>
    ELSE LET p == Head(inputPaths)
             here == IF ~Exists(f, p) THEN <<>>
                     ELSE IF IsDirectory(p) THEN ipcScanDir(f, p)
                     ELSE IF ExtName(p) \in imageExtensions THEN <<p>> ELSE <<>>
         IN  here \o scanPaths(f, Tail(inputPaths))

\* ------------------------------------------------- processFiles (compressor)
RECURSIVE scanEntries(_, _)
scanEntries(f, entries) ==
    IF entries = <<>> THEN <<>>
    ELSE LET e == Head(entries)
             here == IF IsDirectory(e) THEN scanEntries(f, ReadDir(f, e))
                     ELSE IF ExtName(e) \in SUPPORTED_EXTENSIONS THEN <<e>> ELSE <<>>
         IN  here \o scanEntries(f, Tail(entries))

\* scanDir of processFiles: what it pushes onto allFiles.
scanDir(f, dir) == scanEntries(f, ReadDir(f, dir))

\* One turn of the loop `for (const p of filePaths)`: what is pushed onto
\* allFiles for p.  Only called when fs.stat(p) succeeded.
ExpandPath(f, p) == IF IsDirectory(p) THEN scanDir(f, p) ELSE <<p>>

\* --------------------------------------------------------------- results
Result(filePath, originalSize, compressedSize, savedBefore, status, error) ==
    [filePath |-> filePath, originalSize |-> originalSize,
     compressedSize |-> compressedSize, savedBefore |-> savedBefore,
     status |-> status, error |-> error]

\* compressFile's catch block.
ErrorResult(filePath, message) == Result(filePath, 0, 0, 0, "error", message)

\* A skipped result that reports nothing as kept.
SkippedResultZero(filePath, originalSize) ==
    Result(filePath, originalSize, 0, 0, "skipped", "Unsupported format")

\* compressFile's return for an unsupported extension.
SkippedResult(filePath, originalSize) ==
    Result(filePath, originalSize, originalSize, 0, "skipped", "Unsupported format")

\* compressFile's return after fs.writeFile.
ShrunkResult(filePath, originalSize, outputLength) ==
    Result(filePath, originalSize, outputLength, originalSize - outputLength, "success", "")

\* compressFile's return when the output is not smaller.
NoGainResult(filePath, originalSize) ==
    Result(filePath, originalSize, originalSize, 0, "success", "")

\* The comparison with `<=`: an output of the same size is written too.
ShouldWriteOrEqual(outputLength, originalSize) == outputLength <= originalSize

\* `outputBuffer.length < originalSize`: whether compressFile writes.
ShouldWrite(outputLength, originalSize) == outputLength < originalSize

\* ------------------------------------------------ renderer: the working set
\* A FileItem as addFilesToQueue creates it.
NewItem(id, path) ==
    [id |-> id, path |-> path, status |-> "pending",
     originalSize |-> 0, compressedSize |-> 0, savedSize |-> 0]

\* newPaths.map(...): one item per entry of newPaths, ids fresh from firstId on.
NewItems(newPaths, firstId) ==
    [k \in 1..Len(newPaths) |-> NewItem(firstId + k - 1, newPaths[k])]

\* new Set(items.map(f => f.path))
PathSet(items) == {items[k].path : k \in 1..Len(items)}

\* Step 6 left out: the ref is only updated by the next render.
RegisterInRefLate(currentFiles, newFilesItems) == currentFiles

\* Step 6, `filesRef.current = [...currentFiles, ...newFilesItems]`: the
\* admitted items are registered in the ref at once.
RegisterInRef(currentFiles, newFilesItems) == currentFiles \o newFilesItems

\* No filter: every scanned path counts as new.
FilterNewAll(allImagePaths, existingPaths) == allImagePaths

\* allImagePaths.filter(p => !existingPaths.has(p))
FilterNew(allImagePaths, existingPaths) ==
    SelectSeqBy(allImagePaths, Range(allImagePaths) \ existingPaths)

NoResult == Result("", 0, 0, 0, "", "")

\* The queued state updaters.  Every updater has the same fields; `type` says
\* which of them it uses.
Updater(type, items, paths, result, id, value) ==
    [type |-> type, items |-> items, paths |-> paths, result |-> result,
     id |-> id, value |-> value]

AddUpdate(items)        == Updater("add", items, <<>>, NoResult, 0, FALSE)
ProgressUpdate(result)  == Updater("progress", <<>>, <<>>, result, 0, FALSE)
MarkUpdate(paths)       == Updater("mark", <<>>, paths, NoResult, 0, FALSE)
ClearUpdateMissing      == Updater("processing", <<>>, <<>>, NoResult, 0, FALSE)
ClearUpdate             == Updater("clear", <<>>, <<>>, NoResult, 0, FALSE)
DeleteUpdate(id)        == Updater("delete", <<>>, <<>>, NoResult, id, FALSE)
ProcessingUpdate(value) == Updater("processing", <<>>, <<>>, NoResult, 0, value)

RECURSIVE SelectItems(_, _, _)
\* items.filter: keep the items whose field `field` is in `keep`.
SelectItems(items, field, keep) ==
    IF items = <<>> THEN <<>>
    ELSE (IF Head(items)[field] \in keep THEN <<Head(items)>> ELSE <<>>)
         \o SelectItems(Tail(items), field, keep)

\* setFiles(prev => ...) of addFilesToQueue, step 7.
ApplyAdd(prev, newFilesItems) ==
    LET prevPaths == PathSet(prev)
        trulyNewItems == SelectItems(newFilesItems, "path", PathSet(newFilesItems) \ prevPaths)
    IN  IF trulyNewItems = <<>> THEN prev ELSE prev \o trulyNewItems

\* The status the progress listener stores for a result.
ListenerStatus(result) ==
    IF result.status = "success" THEN "success"
    ELSE IF result.status = "skipped" THEN "skipped" ELSE "error"

\* setFiles(prev => prev.map(...)) of the progress listener.
ApplyProgress(prev, result) ==
    [k \in 1..Len(prev) |->
        IF prev[k].path = result.filePath
        THEN [prev[k] EXCEPT !.originalSize = result.originalSize,
                             !.compressedSize = result.compressedSize,
                             !.savedSize = result.savedBefore,
                             !.status = ListenerStatus(result)]
        ELSE prev[k]]

\* setFiles(prev => prev.map(...)) of processNewFiles: pending -> processing.
ApplyMark(prev, paths) ==
    [k \in 1..Len(prev) |->
        IF prev[k].path \in Range(paths) /\ prev[k].status = "pending"
        THEN [prev[k] EXCEPT !.status = "processing"]
        ELSE prev[k]]

\* prev.filter(f => f.id !== id) of handleDeleteFile.
ApplyDelete(prev, id) ==
    SelectItems(prev, "id", {prev[k].id : k \in 1..Len(prev)} \ {id})

\* One queued updater applied to the component's state.  handleDeleteFile's
\* updater also assigns filesRef.current.
ApplyUpdate(st, u) ==
    CASE u.type = "add"        -> [st EXCEPT !.files = ApplyAdd(st.files, u.items)]
      [] u.type = "progress"   -> [st EXCEPT !.files = ApplyProgress(st.files, u.result)]
      [] u.type = "mark"       -> [st EXCEPT !.files = ApplyMark(st.files, u.paths)]
      [] u.type = "clear"      -> [st EXCEPT !.files = <<>>]
      [] u.type = "delete"     -> [st EXCEPT !.files = ApplyDelete(st.files, u.id),
                                             !.ref = ApplyDelete(st.files, u.id)]
      [] u.type = "processing" -> [st EXCEPT !.isProcessing = u.value]

RECURSIVE ApplyAll(_, _)
ApplyAll(st, us) == IF us = <<>> THEN st ELSE ApplyAll(ApplyUpdate(st, Head(us)), Tail(us))

\* The body of the component, lines 298-303: the ref follows the rendered
\* state unless the ref is longer.
SyncRef(renderedFiles, ref) == IF Len(renderedFiles) >= Len(ref) THEN renderedFiles ELSE ref

\* ------------------------------------------------------ compression options
\* useState('lossless') and useState(75).
DefaultOptions == [mode |-> "lossless", quality |-> 75]

\* The values the mode buttons and the quality slider can set.
Modes == {"lossless", "lossy"}
Qualities == {50, 75}

\* A task that has not built its sharp pipeline has read no options.
NoOptions == [mode |-> "", quality |-> 0]

\* compressFile reading the renderer's current mode and quality instead of
\* its parameter.
compressFileOptionsLive(passed, current) == current

\* The options compressFile reads when it builds the pipeline: those of its
\* parameter, whatever the renderer's refs hold by then.
compressFileOptions(passed, current) == passed

\* ------------------------------------------------------- main: the limiter
\* A task handed to limit(): the async function of processFiles line 149,
\* with the locals of its compressFile call.
NewJob(b, file) ==
    [batch |-> b, file |-> file, pc |-> "queued", originalSize |-> 0, outputLength |-> 0,
     options |-> NoOptions]

\* p-limit's run(): the task starts and runs up to its first await, fs.stat.
RunJob(js, j) == [js EXCEPT ![j].pc = "stat"]

RECURSIVE limitEnqueuedOffByOne(_, _, _)
\* The limiter with its test off by one: a task starts while activeCount is
\* at most the concurrency.
limitEnqueuedOffByOne(js, queue, active) ==
    IF queue # <<>> /\ active <= Concurrency
    THEN limitEnqueuedOffByOne(RunJob(js, Head(queue)), Tail(queue), active + 1)
    ELSE [jobs |-> js, queue |-> queue, active |-> active]

RECURSIVE limitEnqueued(_, _, _)
\* p-limit after tasks were enqueued: queued tasks are started, oldest first,
\* while activeCount is below the concurrency.
limitEnqueued(js, queue, active) ==
    IF queue # <<>> /\ active < Concurrency
    THEN limitEnqueued(RunJob(js, Head(queue)), Tail(queue), active + 1)
    ELSE [jobs |-> js, queue |-> queue, active |-> active]

\* next() that only frees the slot and starts nothing.
limitNextIdle(js, queue, active) == [jobs |-> js, queue |-> queue, active |-> active - 1]

\* next() that starts the newest queued task.
limitNextNewest(js, queue, active) ==
    IF queue # <<>>
    THEN [jobs |-> RunJob(js, queue[Len(queue)]), queue |-> SubSeq(queue, 1, Len(queue) - 1),
          active |-> (active - 1) + 1]
    ELSE [jobs |-> js, queue |-> queue, active |-> active - 1]

\* next() that starts the oldest queued task and leaves it in the queue.
limitNextPeek(js, queue, active) ==
    IF queue # <<>>
    THEN [jobs |-> RunJob(js, Head(queue)), queue |-> queue, active |-> (active - 1) + 1]
    ELSE [jobs |-> js, queue |-> queue, active |-> active - 1]

\* p-limit's next(): a task has settled; the oldest queued task, if any, starts.
limitNext(js, queue, active) ==
    IF queue # <<>>
    THEN [jobs |-> RunJob(js, Head(queue)), queue |-> Tail(queue), active |-> (active - 1) + 1]
    ELSE [jobs |-> js, queue |-> queue, active |-> active - 1]

\* onProgress called before `done++`: the event carries the old count.
ProgressEventStale(done, total, result) == [done |-> done - 1, total |-> total, result |-> result]

\* The payload of one onProgress call.
ProgressEvent(done, total, result) == [done |-> done, total |-> total, result |-> result]

\* `done++`
NextDone(done) == done + 1

\* An entry of a request that is not a string (null, a number) is written as
\* this marker.
NonStrings == {"#null"}

\* typeof p === 'string'
IsString(p) == p \notin NonStrings

\* p.trim().length > 0
TrimmedNotEmpty(p) == p \notin {"", " "}

\* The filter without trim(): a blank entry counts as a path.
validPathsNoTrim(filePaths) ==
    SelectSeqBy(filePaths, {p \in Range(filePaths) : IsString(p) /\ p # ""})

\* filePaths.filter(p => typeof p === 'string' && p.trim().length > 0)
validPaths(filePaths) ==
    SelectSeqBy(filePaths, {p \in Range(filePaths) : IsString(p) /\ TrimmedNotEmpty(p)})

\* A processNewFiles invocation and, once it is sent, its compress-files call.
\*   pc: "listen"   processNewFiles awaits api.onProgress
\*       "expand"   processFiles walks filePaths, `i` is the next index
\*       "running"  the tasks are handed to the limiter
\*       "answered" the handler has returned `response`
NewBatch(paths) ==
    [paths |-> paths, pc |-> "listen", filePaths |-> <<>>, i |-> 0, allFiles |-> <<>>,
     total |-> 0, done |-> 0, emitted |-> <<>>, response |-> "",
     options |-> DefaultOptions, window |-> 0, sent |-> 0]

\* ------------------------------------------------------------------- Init
\* How many Clear clicks, row deletions and external deletions have happened.
Disturbances == clicks.clear + clicks.uiDelete + clicks.diskDelete + clicks.close

InitialSize(p) == IF p = "d/c.txt" THEN 1 ELSE MaxSize

Init ==
    /\ fs = [p \in FilePaths |-> InitialSize(p)]
    /\ calls = <<>>
    /\ files = <<>>
    /\ filesRef = <<>>
    /\ updates = <<>>
    /\ isProcessing = FALSE
    /\ unlistenRef = 0
    /\ listeners = {}
    /\ batches = <<>>
    /\ jobs = <<>>
    /\ limitQueue = <<>>
    /\ activeCount = 0
    /\ channel = <<>>
    /\ nextId = 1
    /\ clicks = [clear |-> 0, uiDelete |-> 0, diskDelete |-> 0, close |-> 0]
    /\ optionsRef = DefaultOptions
    /\ mainWindow = 1
    /\ ipcSetup = TRUE
    /\ ipcWindow = 1
    /\ windows = 1
    /\ handlers = 1

rendererVars == <<calls, files, filesRef, updates, isProcessing, unlistenRef, listeners, nextId,
                  optionsRef>>
appVars == <<mainWindow, ipcSetup, ipcWindow, windows, handlers>>
mainVars == <<batches, jobs, limitQueue, activeCount, channel>>

\* The path lists a drop or the file dialog hands to addFilesToQueue.
InputLists ==
    { <<"d/a.png">>,
      <<"d", "d/a.png">> }

\* --------------------------------------------------------- renderer actions
\* handleDrop / handleClick / the drag-drop listener: addFilesToQueue starts
\* and awaits api.scanPaths.
AddFilesToQueue(inputPaths) ==
    /\ Len(calls) < MaxCalls
    /\ calls' = Append(calls, [inputPaths |-> inputPaths, pc |-> "scan",
                               allImagePaths |-> <<>>, newPaths |-> <<>>, toast |-> -1])
    /\ UNCHANGED <<fs, files, filesRef, updates, isProcessing, unlistenRef, listeners,
                   nextId, clicks>>
    /\ UNCHANGED mainVars
    /\ UNCHANGED optionsRef
    /\ UNCHANGED appVars

\* The scan-paths handler answers call c.
ScanPathsHandler(c) ==
    /\ calls[c].pc = "scan"
    /\ calls' = [calls EXCEPT ![c].pc = "scanned",
                              ![c].allImagePaths = scanPaths(fs, calls[c].inputPaths)]
    /\ UNCHANGED <<fs, files, filesRef, updates, isProcessing, unlistenRef, listeners,
                   nextId, clicks>>
    /\ UNCHANGED mainVars
    /\ UNCHANGED optionsRef
    /\ UNCHANGED appVars

\* addFilesToQueue after `await api.scanPaths`, steps 2 to 8, and
\* processNewFiles up to `await api.onProgress`.
Admit(c) ==
    /\ calls[c].pc = "scanned"
    /\ LET allImagePaths == calls[c].allImagePaths
           currentFiles == filesRef
           newPaths == FilterNew(allImagePaths, PathSet(currentFiles))
           duplicateCount == Len(allImagePaths) - Len(newPaths)
           newFilesItems == NewItems(newPaths, nextId)
       IN  IF newPaths = <<>>
           THEN /\ calls' = [calls EXCEPT ![c].pc = "done",
                                ![c].toast = IF Len(allImagePaths) > 0 /\ Len(calls[c].inputPaths) > 0
                                             THEN Len(allImagePaths) ELSE -1]
                /\ UNCHANGED <<filesRef, updates, unlistenRef, listeners, nextId, batches>>
           ELSE /\ calls' = [calls EXCEPT ![c].pc = "done", ![c].newPaths = newPaths,
                                ![c].toast = IF duplicateCount > 0 THEN duplicateCount ELSE -1]
                /\ filesRef' = RegisterInRef(currentFiles, newFilesItems)
                /\ nextId' = nextId + Len(newPaths)
                /\ updates' = updates \o <<AddUpdate(newFilesItems), ProcessingUpdate(TRUE)>>
                /\ listeners' = listeners \ {unlistenRef}
                /\ unlistenRef' = 0
                /\ batches' = Append(batches, NewBatch(newPaths))
    /\ UNCHANGED <<fs, files, isProcessing, clicks, jobs, limitQueue, activeCount, channel>>
    /\ UNCHANGED optionsRef
    /\ UNCHANGED appVars

\* processNewFiles after `await api.onProgress`: the listener is attached, the
\* new items are marked, and compress-files is invoked; the handler validates
\* the paths and processFiles starts its walk.
RegisterListener(b) ==
    /\ batches[b].pc = "listen"
    /\ listeners' = listeners \cup {b}
    /\ unlistenRef' = b
    /\ updates' = Append(updates, MarkUpdate(batches[b].paths))
    /\ LET valid == validPaths(batches[b].paths)
       IN  batches' = IF valid = <<>>
                      THEN [batches EXCEPT ![b].pc = "answered",
                                           ![b].response = "No valid file paths provided",
                                           ![b].options = optionsRef, ![b].window = mainWindow]
                      ELSE [batches EXCEPT ![b].pc = "expand", ![b].filePaths = valid, ![b].i = 1,
                                           ![b].options = optionsRef, ![b].window = mainWindow]
    /\ UNCHANGED <<fs, calls, files, filesRef, isProcessing, nextId, clicks,
                   jobs, limitQueue, activeCount, channel>>
    /\ UNCHANGED optionsRef
    /\ UNCHANGED appVars

RECURSIVE Repeat(_, _)
Repeat(us, n) == IF n = 0 THEN <<>> ELSE us \o Repeat(us, n - 1)

\* What one attached listener queues for a progress event.
ListenerUpdates(data) ==
    <<ProgressUpdate(data.result)>>
    \o (IF data.done = data.total THEN <<ProcessingUpdate(FALSE)>> ELSE <<>>)

\* A 'compression-progress' message reaches the renderer: every attached
\* listener runs; with none attached the event is dropped.
DeliverProgress ==
    /\ channel # <<>>
    /\ channel' = Tail(channel)
    /\ updates' = updates \o Repeat(ListenerUpdates(Head(channel)), Cardinality(listeners))
    /\ UNCHANGED <<fs, calls, files, filesRef, isProcessing, unlistenRef, listeners,
                   nextId, clicks, batches, jobs, limitQueue, activeCount>>
    /\ UNCHANGED optionsRef
    /\ UNCHANGED appVars

\* React renders: the queued updaters are applied in order, then the body of
\* the component synchronises the ref.
Render ==
    /\ updates # <<>>
    /\ LET st == ApplyAll([files |-> files, ref |-> filesRef, isProcessing |-> isProcessing],
                          updates)
       IN  /\ files' = st.files
           /\ isProcessing' = st.isProcessing
           /\ filesRef' = SyncRef(st.files, st.ref)
    /\ updates' = <<>>
    /\ UNCHANGED <<fs, calls, unlistenRef, listeners, nextId, clicks>>
    /\ UNCHANGED mainVars
    /\ UNCHANGED optionsRef
    /\ UNCHANGED appVars

\* The Clear button, shown while the rendered list is not empty.
handleClear ==
    /\ files # <<>>
    /\ Disturbances < MaxDisturbances
    /\ clicks' = [clicks EXCEPT !.clear = @ + 1]
    /\ updates' = updates \o <<ClearUpdate, ProcessingUpdate(FALSE)>>
    /\ filesRef' = <<>>
    /\ listeners' = listeners \ {unlistenRef}
    /\ unlistenRef' = 0
    /\ UNCHANGED <<fs, calls, files, isProcessing, nextId>>
    /\ UNCHANGED mainVars
    /\ UNCHANGED optionsRef
    /\ UNCHANGED appVars

\* The delete button of a rendered row.
handleDeleteFile(id) ==
    /\ Disturbances < MaxDisturbances
    /\ clicks' = [clicks EXCEPT !.uiDelete = @ + 1]
    /\ updates' = Append(updates, DeleteUpdate(id))
    /\ UNCHANGED <<fs, calls, files, filesRef, isProcessing, unlistenRef, listeners, nextId>>
    /\ UNCHANGED mainVars
    /\ UNCHANGED optionsRef
    /\ UNCHANGED appVars

\* A click on a mode button, enabled while isProcessing is rendered false, and
\* the render it causes: the body of the component copies the state into the
\* refs.
setMode(m) ==
    /\ ~isProcessing
    /\ m # optionsRef.mode
    /\ optionsRef' = [optionsRef EXCEPT !.mode = m]
    /\ LET st == ApplyAll([files |-> files, ref |-> filesRef, isProcessing |-> isProcessing],
                          updates)
       IN  /\ files' = st.files
           /\ isProcessing' = st.isProcessing
           /\ filesRef' = SyncRef(st.files, st.ref)
    /\ updates' = <<>>
    /\ UNCHANGED <<fs, calls, unlistenRef, listeners, nextId, clicks>>
    /\ UNCHANGED mainVars
    /\ UNCHANGED appVars

\* The quality slider, rendered in lossy mode and enabled while isProcessing
\* is rendered false, and the render it causes.
setQuality(q) ==
    /\ ~isProcessing
    /\ optionsRef.mode = "lossy"
    /\ q # optionsRef.quality
    /\ optionsRef' = [optionsRef EXCEPT !.quality = q]
    /\ LET st == ApplyAll([files |-> files, ref |-> filesRef, isProcessing |-> isProcessing],
                          updates)
       IN  /\ files' = st.files
           /\ isProcessing' = st.isProcessing
           /\ filesRef' = SyncRef(st.files, st.ref)
    /\ updates' = <<>>
    /\ UNCHANGED <<fs, calls, unlistenRef, listeners, nextId, clicks>>
    /\ UNCHANGED mainVars
    /\ UNCHANGED appVars

\* ------------------------------------------------------------ main actions
\* The path lists a compress-files request carries when the handler is driven
\* directly: files the renderer lists twice, a directory, an unsupported file.
PoolLists ==
    { <<"d/c.txt", "b.jpg">>,
      <<"d", "d/a.png", "b.jpg", "b.jpg">> }

\* The requests of the runs with a failing environment.
FaultLists ==
    { <<"d/a.png", "b.jpg">>,
      <<"d/a.png", "d/a.png">> }

\* The compress-files handler receives a request: it validates the paths and
\* processFiles starts its walk.
CompressFiles(filePaths) ==
    /\ Len(batches) < MaxCalls
    /\ mainWindow # 0
    /\ LET valid == validPaths(filePaths)
           request == [NewBatch(filePaths) EXCEPT !.options = optionsRef, !.window = mainWindow]
       IN  batches' = Append(batches,
                IF valid = <<>>
                THEN [request EXCEPT !.pc = "answered",
                                     !.response = "No valid file paths provided"]
                ELSE [request EXCEPT !.pc = "expand", !.filePaths = valid, !.i = 1])
    /\ UNCHANGED <<fs, clicks, jobs, limitQueue, activeCount, channel>>
    /\ UNCHANGED rendererVars
    /\ UNCHANGED appVars

\* processFiles resolving while its last task is still running.
SettleBeforeLast(batch) ==
    IF batch.done >= batch.total - 1 THEN [batch EXCEPT !.pc = "answered", !.response = "ok"]
    ELSE batch

\* `await Promise.all(tasks)`: once every task has settled, processFiles
\* resolves and the compress-files handler returns {success: true}.
Settle(batch) ==
    IF batch.done = batch.total THEN [batch EXCEPT !.pc = "answered", !.response = "ok"]
    ELSE batch

\* processFiles, lines 145-154, once the walk is over: one task per entry of
\* allFiles is handed to the limiter, which starts what it has room for.
Schedule(b, allFiles) ==
    LET first == Len(jobs)
        tasks == [k \in 1..Len(allFiles) |-> NewJob(b, allFiles[k])]
        ids == [k \in 1..Len(allFiles) |-> first + k]
        lim == limitEnqueued(jobs \o tasks, limitQueue \o ids, activeCount)
    IN  /\ jobs' = lim.jobs
        /\ limitQueue' = lim.queue
        /\ activeCount' = lim.active
        /\ batches' = [batches EXCEPT ![b] = Settle([@ EXCEPT !.pc = "running",
                                                              !.allFiles = allFiles,
                                                              !.total = Len(allFiles),
                                                              !.i = 0])]

\* One turn of processFiles' loop over filePaths: `await fs.stat(p)` returns.
\* A failing stat rejects processFiles, and the handler answers with the error.
ExpandStep(b) ==
    /\ batches[b].pc = "expand"
    /\ LET p == batches[b].filePaths[batches[b].i]
           allFiles == batches[b].allFiles \o ExpandPath(fs, p)
       IN  IF ~Exists(fs, p)
           THEN /\ batches' = [batches EXCEPT ![b].pc = "answered", ![b].response = "ENOENT",
                                              ![b].i = 0]
                /\ UNCHANGED <<jobs, limitQueue, activeCount>>
           ELSE IF batches[b].i < Len(batches[b].filePaths)
           THEN /\ batches' = [batches EXCEPT ![b].allFiles = allFiles, ![b].i = @ + 1]
                /\ UNCHANGED <<jobs, limitQueue, activeCount>>
           ELSE Schedule(b, allFiles)
    /\ UNCHANGED <<fs, channel, clicks>>
    /\ UNCHANGED rendererVars
    /\ UNCHANGED appVars

\* BrowserWindow.isDestroyed(): a window is destroyed once it has closed, and
\* at most one window is open at a time.
isDestroyed(w) == w # mainWindow

\* compressFile has returned `result` for task j: `done++`, onProgress sends
\* the event to the window, the task settles and the limiter starts the next.
Report(j, result) ==
    LET b == jobs[j].batch
        done == NextDone(batches[b].done)
        data == ProgressEvent(done, batches[b].total, result)
        settled == [jobs EXCEPT ![j].pc = "done", ![j].originalSize = 0, ![j].outputLength = 0]
        lim == limitNext(settled, limitQueue, activeCount)
        open == ~isDestroyed(ipcWindow)
    IN  /\ batches' = [batches EXCEPT ![b] = Settle([@ EXCEPT !.done = done,
                                                              !.emitted = Append(@, data),
                                                              !.sent = IF open THEN @ + 1 ELSE @])]
        /\ channel' = IF open THEN Append(channel, data) ELSE channel
        /\ jobs' = lim.jobs
        /\ limitQueue' = lim.queue
        /\ activeCount' = lim.active

\* `await fs.stat(filePath)` of compressFile returns.
StatDone(j) ==
    /\ jobs[j].pc = "stat"
    /\ LET file == jobs[j].file
       IN  IF ~Exists(fs, file)
           THEN Report(j, ErrorResult(file, "ENOENT"))
           ELSE IF ExtName(file) \notin SUPPORTED_EXTENSIONS
           THEN Report(j, SkippedResult(file, fs[file]))
           ELSE /\ jobs' = [jobs EXCEPT ![j].pc = "read", ![j].originalSize = fs[file]]
                /\ UNCHANGED <<batches, channel, limitQueue, activeCount>>
    /\ UNCHANGED <<fs, clicks>>
    /\ UNCHANGED rendererVars
    /\ UNCHANGED appVars

\* `await fs.readFile(filePath)` returns, and sharp is called on the buffer.
ReadDone(j) ==
    /\ jobs[j].pc = "read"
    /\ LET file == jobs[j].file
       IN  IF ~Exists(fs, file)
           THEN Report(j, ErrorResult(file, "ENOENT"))
           ELSE /\ jobs' = [jobs EXCEPT ![j].pc = "transcode",
                                        ![j].options = compressFileOptions(
                                            batches[jobs[j].batch].options, optionsRef)]
                /\ UNCHANGED <<batches, channel, limitQueue, activeCount>>
    /\ UNCHANGED <<fs, clicks>>
    /\ UNCHANGED rendererVars
    /\ UNCHANGED appVars

\* `await sharp(inputBuffer)...toBuffer()` returns a buffer of outputLength
\* bytes; compressFile compares it with the size stat reported.
TranscodeDone(j, outputLength) ==
    /\ jobs[j].pc = "transcode"
    /\ IF ShouldWrite(outputLength, jobs[j].originalSize)
       THEN /\ jobs' = [jobs EXCEPT ![j].pc = "write", ![j].outputLength = outputLength]
            /\ UNCHANGED <<batches, channel, limitQueue, activeCount>>
       ELSE Report(j, NoGainResult(jobs[j].file, jobs[j].originalSize))
    /\ UNCHANGED <<fs, clicks>>
    /\ UNCHANGED rendererVars
    /\ UNCHANGED appVars

\* sharp rejects the input.
TranscodeFails(j) ==
    /\ jobs[j].pc = "transcode"
    /\ Report(j, ErrorResult(jobs[j].file, "codec"))
    /\ UNCHANGED <<fs, clicks>>
    /\ UNCHANGED rendererVars
    /\ UNCHANGED appVars

\* `await fs.writeFile(filePath, outputBuffer)` returns.
WriteDone(j) ==
    /\ jobs[j].pc = "write"
    /\ fs' = [fs EXCEPT ![jobs[j].file] = jobs[j].outputLength]
    /\ Report(j, ShrunkResult(jobs[j].file, jobs[j].originalSize, jobs[j].outputLength))
    /\ UNCHANGED clicks
    /\ UNCHANGED rendererVars
    /\ UNCHANGED appVars

\* fs.writeFile fails.
WriteFails(j) ==
    /\ jobs[j].pc = "write"
    /\ Report(j, ErrorResult(jobs[j].file, "EIO"))
    /\ UNCHANGED <<fs, clicks>>
    /\ UNCHANGED rendererVars
    /\ UNCHANGED appVars

\* ------------------------------------------------------------- environment
\* Another program removes an image from disk.
DiskDelete(p) ==
    /\ Disturbances < MaxDisturbances
    /\ fs[p] > 0
    /\ fs' = [fs EXCEPT ![p] = 0]
    /\ clicks' = [clicks EXCEPT !.diskDelete = @ + 1]
    /\ UNCHANGED rendererVars
    /\ UNCHANGED mainVars
    /\ UNCHANGED appVars

\* The user closes the window: the 'closed' handler of main.ts runs, the
\* renderer and the messages on their way to it are gone, and on macOS the
\* application and its tasks go on.
WindowClosed ==
    /\ mainWindow # 0
    /\ Disturbances < MaxDisturbances
    /\ clicks' = [clicks EXCEPT !.close = @ + 1]
    /\ mainWindow' = 0
    /\ calls' = <<>>
    /\ files' = <<>>
    /\ filesRef' = <<>>
    /\ updates' = <<>>
    /\ isProcessing' = FALSE
    /\ unlistenRef' = 0
    /\ listeners' = {}
    /\ optionsRef' = DefaultOptions
    /\ channel' = <<>>
    /\ UNCHANGED <<fs, nextId, batches, jobs, limitQueue, activeCount>>
    /\ UNCHANGED <<ipcSetup, ipcWindow, windows, handlers>>

\* app 'activate' with no window open: createWindow runs again.
Activate ==
    /\ mainWindow = 0
    /\ windows' = windows + 1
    /\ mainWindow' = windows + 1
    /\ IF ~ipcSetup
       THEN /\ ipcWindow' = windows + 1
            /\ handlers' = handlers + 1
            /\ ipcSetup' = TRUE
       ELSE UNCHANGED <<ipcSetup, ipcWindow, handlers>>
    /\ UNCHANGED <<fs, clicks>>
    /\ UNCHANGED rendererVars
    /\ UNCHANGED mainVars

\* ------------------------------------------------------------------- Next
\* The steps of processFiles and compressFile when the codec and the disk
\* accept every call.
MainStep(outputLengths) ==
    \/ \E b \in 1..Len(batches) : ExpandStep(b)
    \/ \E j \in 1..Len(jobs) : StatDone(j)
    \/ \E j \in 1..Len(jobs) : ReadDone(j)
    \/ \E j \in 1..Len(jobs), n \in outputLengths : TranscodeDone(j, n)
    \/ \E j \in 1..Len(jobs) : WriteDone(j)

\* The codec either shrinks an image to one byte or returns it at full size.
TwoOutputs == {1, MaxSize}

\* Every output length up to the size of an image.
AllOutputs == 1..MaxSize

\* The whole program: the user drops path lists on the window, clears the list
\* and deletes rows while the main process works, and another program may
\* remove the image.
Next ==
    \/ \E inputPaths \in InputLists : AddFilesToQueue(inputPaths)
    \/ \E c \in 1..Len(calls) : ScanPathsHandler(c)
    \/ \E c \in 1..Len(calls) : Admit(c)
    \/ \E b \in 1..Len(batches) : RegisterListener(b)
    \/ DeliverProgress
    \/ Render
    \/ handleClear
    \/ \E k \in 1..Len(files) : handleDeleteFile(files[k].id)
    \/ MainStep(TwoOutputs)
    \/ DiskDelete("d/a.png")

Spec == Init /\ [][Next]_vars

\* The main process alone, driven by compress-files requests; the
\* 'compression-progress' messages are left in the channel.
PoolNext ==
    \/ \E filePaths \in PoolLists : CompressFiles(filePaths)
    \/ MainStep(TwoOutputs)

PoolSpec == Init /\ [][PoolNext]_vars

\* The main process with a failing environment: files disappear, the codec
\* rejects an image, a write fails.
FaultNext ==
    \/ \E filePaths \in FaultLists : CompressFiles(filePaths)
    \/ MainStep(AllOutputs)
    \/ \E j \in 1..Len(jobs) : TranscodeFails(j)
    \/ \E j \in 1..Len(jobs) : WriteFails(j)
    \/ \E p \in {"d/a.png", "b.jpg"} : DiskDelete(p)

FaultSpec == Init /\ [][FaultNext]_vars

\* The requests of the runs that exercise every outcome of compressFile: an
\* unsupported file next to an image, and a single image.
CodecLists ==
    { <<"d/c.txt", "d/a.png">>,
      <<"b.jpg">> }

\* The main process with a failing environment, on requests that also hold an
\* unsupported file.
CodecNext ==
    \/ \E filePaths \in CodecLists : CompressFiles(filePaths)
    \/ MainStep(AllOutputs)
    \/ \E j \in 1..Len(jobs) : TranscodeFails(j)
    \/ \E j \in 1..Len(jobs) : WriteFails(j)
    \/ \E p \in {"d/a.png", "b.jpg"} : DiskDelete(p)

CodecSpec == Init /\ [][CodecNext]_vars

\* The path lists of two drops of different images.
OverlapLists ==
    { <<"d/a.png">>,
      <<"b.jpg">> }

\* The window and the main process when nothing fails and nothing is cleared:
\* the user drops one image and then another, so that a second
\* processNewFiles can start while the first batch is still running.
OverlapNext ==
    \/ \E inputPaths \in OverlapLists : AddFilesToQueue(inputPaths)
    \/ \E c \in 1..Len(calls) : ScanPathsHandler(c)
    \/ \E c \in 1..Len(calls) : Admit(c)
    \/ \E b \in 1..Len(batches) : RegisterListener(b)
    \/ DeliverProgress
    \/ Render
    \/ MainStep(TwoOutputs)

OverlapSpec == Init /\ [][OverlapNext]_vars

\* The requests that exercise the validation of the compress-files handler:
\* an empty list, a list of blank and non-string entries, and a list that
\* also holds an image.
ValidateLists ==
    { <<>>,
      <<"", "#null", " ">>,
      <<"", "b.jpg", "#null", "e.png">> }

\* The main process alone, driven by requests with invalid entries.
ValidateNext ==
    \/ \E filePaths \in ValidateLists : CompressFiles(filePaths)
    \/ MainStep(TwoOutputs)

ValidateSpec == Init /\ [][ValidateNext]_vars

\* The path lists of two drops that overlap in one image: the image alone,
\* and a folder with two images beside it.
AdmitLists ==
    { <<"b.jpg">>,
      <<"d", "b.jpg", "e.png">> }

\* The window alone: drops, scans, admissions, renders, Clear and Delete; the
\* compress-files requests are sent and left unanswered.
AdmitNext ==
    \/ \E inputPaths \in AdmitLists : AddFilesToQueue(inputPaths)
    \/ \E c \in 1..Len(calls) : ScanPathsHandler(c)
    \/ \E c \in 1..Len(calls) : Admit(c)
    \/ \E b \in 1..Len(batches) : RegisterListener(b)
    \/ Render
    \/ handleClear
    \/ \E k \in 1..Len(files) : handleDeleteFile(files[k].id)

AdmitSpec == Init /\ [][AdmitNext]_vars

\* The path list of a drop that fills the queue: four images.
QueueLists ==
    { <<"d/a.png", "b.jpg", "e.png", "f.jpeg">> }

\* The window and the main process when nothing fails and nothing is cleared,
\* with drops of up to four images.
QueueNext ==
    \/ \E inputPaths \in QueueLists : AddFilesToQueue(inputPaths)
    \/ \E c \in 1..Len(calls) : ScanPathsHandler(c)
    \/ \E c \in 1..Len(calls) : Admit(c)
    \/ \E b \in 1..Len(batches) : RegisterListener(b)
    \/ DeliverProgress
    \/ Render
    \/ MainStep(TwoOutputs)

QueueSpec == Init /\ [][QueueNext]_vars

\* One drop of four images, with the Clear button: the window and the main
\* process when nothing fails.
ClearNext ==
    \/ calls = <<>> /\ \E inputPaths \in QueueLists : AddFilesToQueue(inputPaths)
    \/ \E c \in 1..Len(calls) : ScanPathsHandler(c)
    \/ \E c \in 1..Len(calls) : Admit(c)
    \/ \E b \in 1..Len(batches) : RegisterListener(b)
    \/ DeliverProgress
    \/ Render
    \/ handleClear
    \/ MainStep(TwoOutputs)

\* Every filesystem and transcoder call of the main process returns: a step
\* of the main process that stays possible is eventually taken.
ClearSpec == Init /\ [][ClearNext]_vars /\ WF_vars(MainStep(TwoOutputs))

\* The renderer submits two images one after the other while the user changes
\* the mode and the quality whenever the controls are enabled.
OptionsNext ==
    \/ \E inputPaths \in OverlapLists : AddFilesToQueue(inputPaths)
    \/ \E c \in 1..Len(calls) : ScanPathsHandler(c)
    \/ \E c \in 1..Len(calls) : Admit(c)
    \/ \E b \in 1..Len(batches) : RegisterListener(b)
    \/ DeliverProgress
    \/ Render
    \/ \E m \in Modes : setMode(m)
    \/ \E q \in Qualities : setQuality(q)
    \/ MainStep(TwoOutputs)

OptionsSpec == Init /\ [][OptionsNext]_vars

\* The requests of the runs in which the window is closed and opened again.
WindowLists ==
    { <<"d/a.png">>,
      <<"b.jpg", "e.png">> }

\* The main process serves requests while the window is closed and the
\* application is activated again.
WindowNext ==
    \/ \E filePaths \in WindowLists : CompressFiles(filePaths)
    \/ MainStep(TwoOutputs)
    \/ WindowClosed
    \/ Activate

WindowSpec == Init /\ [][WindowNext]_vars

\* -------------------------------------------------------------- properties
\* The tasks whose compressFile call has started and not yet returned.
InFlight == {j \in 1..Len(jobs) : jobs[j].pc \in {"stat", "read", "transcode", "write"}}

\* The tasks of batch b, in submission order.
JobsOf(b) == SelectSeq([j \in 1..Len(jobs) |-> [id |-> j, batch |-> jobs[j].batch]],
                       LAMBDA r : r.batch = b)

\* C1: at every instant at most 3 compressFile jobs have started and not yet
\* finished, whatever the size of a batch and however many processFiles calls
\* overlap; the limiter's own count agrees with the jobs in flight.
C1_ConcurrencyCeiling ==
    /\ Cardinality(InFlight) <= 3
    /\ activeCount = Cardinality(InFlight)

\* C1 witness: three jobs of two overlapping calls are in flight and more wait.
C1_Witness ==
    /\ Cardinality(InFlight) = 3
    /\ limitQueue # <<>>
    /\ \E i, j \in InFlight : jobs[i].batch # jobs[j].batch

\* C5: within one processFiles call the k-th progress event carries done = k
\* and the call's total; no event follows the one with done = total, and a call
\* that resolves has counted done up to total.
C5_ProgressCounts ==
    \A b \in 1..Len(batches) :
        LET e == batches[b].emitted
        IN  /\ \A k \in 1..Len(e) : e[k].done = k /\ e[k].total = batches[b].total
            /\ Len(e) <= batches[b].total
            /\ Cardinality({k \in 1..Len(e) : e[k].done = e[k].total}) <= 1
            /\ batches[b].response = "ok" =>
                   /\ batches[b].done = batches[b].total
                   /\ Len(e) = batches[b].total

\* C5 witness: a call over four files has resolved after its fourth event while
\* the other call was emitting events of its own.
C5_Witness ==
    \E b, c \in 1..Len(batches) :
        /\ b # c
        /\ batches[b].total = 4
        /\ batches[b].response = "ok"
        /\ Len(batches[b].emitted) = 4
        /\ batches[c].emitted # <<>>
        /\ batches[c].pc = "running"

\* How many events of batch b report file p, and how many of its tasks for p
\* have settled.
EventsFor(b, p) ==
    Cardinality({k \in 1..Len(batches[b].emitted) : batches[b].emitted[k].result.filePath = p})
SettledFor(b, p) ==
    Cardinality({j \in 1..Len(jobs) : jobs[j].batch = b /\ jobs[j].file = p /\ jobs[j].pc = "done"})
SettledIn(js, b) ==
    Cardinality({j \in 1..Len(js) : js[j].batch = b /\ js[j].pc = "done"})

\* Every entry of the expanded list has exactly one task, in order, and every
\* settled task has exactly one event.
C6_OneTaskOneEvent ==
    \A b \in 1..Len(batches) :
        batches[b].pc = "running" \/ batches[b].response = "ok" =>
            /\ [k \in 1..Len(JobsOf(b)) |-> jobs[JobsOf(b)[k].id].file] = batches[b].allFiles
            /\ \A p \in FilePaths : EventsFor(b, p) = SettledFor(b, p)

\* A task is started once and settles once, and the step in which it settles
\* emits the event that reports it, numbered by the tasks settled so far.
C6_SettleStep ==
    \A j \in 1..Len(jobs) :
        /\ jobs[j].pc = "done" => jobs'[j].pc = "done"
        /\ jobs'[j].pc = "stat" /\ jobs[j].pc # "stat" => jobs[j].pc = "queued"
        /\ jobs[j].pc # "done" /\ jobs'[j].pc = "done" =>
              LET b == jobs[j].batch
                  e == batches'[b].emitted
              IN  /\ Len(e) = Len(batches[b].emitted) + 1
                  /\ SubSeq(e, 1, Len(e) - 1) = batches[b].emitted
                  /\ e[Len(e)].result.filePath = jobs[j].file
                  /\ e[Len(e)].done = SettledIn(jobs', b)

\* C6: within one processFiles call every entry of the expanded list is
\* dispatched exactly once and reported by exactly one progress event, and the
\* events come in the order the jobs complete: the job that finishes k-th is
\* reported by the event with done = k.
C6_ExactlyOnceInCompletionOrder == []C6_OneTaskOneEvent /\ [][C6_SettleStep]_vars

\* C6 witness: a call has resolved whose first event reports another file than
\* the first entry of its list.
C6_Witness ==
    \E b \in 1..Len(batches) :
        /\ batches[b].response = "ok"
        /\ Len(batches[b].allFiles) >= 2
        /\ batches[b].emitted[1].result.filePath # batches[b].allFiles[1]

\* Two items of the list have the same path.
HasDuplicatePath(items) ==
    \E i, j \in 1..Len(items) : i # j /\ items[i].path = items[j].path

\* The newPaths lists handed to processNewFiles so far, as (call, index) pairs.
AdmittedEntries ==
    UNION {{<<c, k>> : k \in 1..Len(calls[c].newPaths)} : c \in 1..Len(calls)}

\* C2: after any sequence of submissions, Clear and Delete actions, the working
\* set (files and filesRef) never holds two QueueItems with the same path, and
\* no path occurs twice in the newPaths lists handed to processNewFiles.
C2_NoDuplicatePath ==
    /\ ~HasDuplicatePath(files)
    /\ ~HasDuplicatePath(filesRef)
    /\ \A e1, e2 \in AdmittedEntries :
           e1 # e2 => calls[e1[1]].newPaths[e1[2]] # calls[e2[1]].newPaths[e2[2]]

\* The finished addFilesToQueue calls whose scan returned exactly <<p>>.
SinglePathCalls(p) ==
    {c \in 1..Len(calls) : calls[c].pc = "done" /\ calls[c].allImagePaths = <<p>>}

\* The finished calls for the single path p are the only calls whose scan
\* returned p, and there are at least two of them.
OnlySinglePathCalls(p) ==
    /\ Cardinality(SinglePathCalls(p)) >= 2
    /\ \A c \in 1..Len(calls) :
           c \notin SinglePathCalls(p) => p \notin Range(calls[c].allImagePaths)

\* Of the finished calls for the same single path, exactly one admitted the
\* path and every other one reported duplicateCount = 1 and did not call
\* processNewFiles; the path has at most one QueueItem and exactly one batch.
AdmittedOnce ==
    \A p \in FilePaths :
        OnlySinglePathCalls(p) =>
            /\ Cardinality({c \in SinglePathCalls(p) : calls[c].newPaths = <<p>>}) = 1
            /\ \A c \in SinglePathCalls(p) :
                   calls[c].newPaths # <<p>> =>
                       calls[c].newPaths = <<>> /\ calls[c].toast = 1
            /\ Cardinality({k \in 1..Len(filesRef) : filesRef[k].path = p}) <= 1
            /\ Cardinality({k \in 1..Len(files) : files[k].path = p}) <= 1
            /\ Cardinality({b \in 1..Len(batches) : p \in Range(batches[b].paths)}) = 1

\* C3 as stated: when two addFilesToQueue calls for the same single path
\* overlap, exactly one QueueItem is created for the path, the second call
\* reports duplicateCount = 1 and does not call processNewFiles.
C3_AsStated == AdmittedOnce

\* C3: when two addFilesToQueue calls for the same single path overlap, and
\* the item is not removed by Clear or Delete in between, exactly one QueueItem
\* is created for the path: one call admits it, the other reports
\* duplicateCount = 1 and does not call processNewFiles.
C3_OverlappingAdmitOnce ==
    clicks.clear = 0 /\ clicks.uiDelete = 0 => AdmittedOnce

\* C3 witness: both calls for d/a.png have finished before the first call's
\* state update was rendered.
C3_Witness ==
    /\ clicks.clear = 0 /\ clicks.uiDelete = 0
    /\ Cardinality(SinglePathCalls("d/a.png")) = 2
    /\ files = <<>>
    /\ Len(filesRef) = 1

\* C4: a compressFile job for a path is never started while another job for
\* the same path is in flight: any two jobs in flight work on distinct paths.
C4_DistinctPathsInFlight ==
    \A i, j \in InFlight : i # j => jobs[i].file # jobs[j].file

\* Every call has returned, every batch is answered, and no event or state
\* update is pending.
Quiescent ==
    /\ \A c \in 1..Len(calls) : calls[c].pc = "done"
    /\ \A b \in 1..Len(batches) : batches[b].pc = "answered"
    /\ channel = <<>>
    /\ updates = <<>>

\* C9: every QueueItem admitted to the working set and not removed by Clear or
\* Delete ends with a terminal status: once the program is at rest, no item of
\* the list is still pending or processing.
C9_TerminalAtRest ==
    Quiescent => \A k \in 1..Len(files) : files[k].status \in {"success", "skipped", "error"}

\* C7: whatever items of a batch fail, the batch reports every item and emits
\* the event with done = total: an answered batch has an event for every file
\* of its request.
C7_EveryItemReported ==
    \A b \in 1..Len(batches) :
        batches[b].pc = "answered" =>
            /\ \A p \in Range(batches[b].filePaths) \cap FilePaths : EventsFor(b, p) >= 1
            /\ \E k \in 1..Len(batches[b].emitted) :
                   batches[b].emitted[k].done = batches[b].emitted[k].total

\* The events of batch b that report file p.
EventsOf(b, p) ==
    {r \in {batches[b].emitted[k].result : k \in 1..Len(batches[b].emitted)} : r.filePath = p}

\* C8: when a file of the request is deleted before the batch processes it,
\* the batch emits an Error event for it that carries the I/O error, and every
\* other item of the batch receives its own event.
C8_DeletedFileReported ==
    \A b \in 1..Len(batches) : \A p \in Range(batches[b].filePaths) :
        /\ batches[b].pc = "answered"
        /\ fs[p] = 0
        /\ \A r \in EventsOf(b, p) : r.status = "error" /\ r.error = "ENOENT"
        => /\ EventsOf(b, p) # {}
           /\ \A q \in Range(batches[b].filePaths) : EventsFor(b, q) >= 1

\* C10: processing never makes a file larger on disk: no step leaves an
\* existing file with more bytes than it had.
C10_NeverLarger ==
    [][\A p \in FilePaths : fs[p] > 0 => fs'[p] <= fs[p]]_vars

\* Task j is in flight before the step and has settled after it.
JobSettles(j) ==
    /\ jobs[j].pc \in {"stat", "read", "transcode", "write"}
    /\ jobs'[j].pc = "done"

\* The result the step reports for the task of batch b that settles in it.
ReportedIn(b) == batches'[b].emitted[Len(batches'[b].emitted)].result

\* A step in which no task settles leaves every file as it is, unless another
\* program removes one.
OnlyJobsWrite ==
    (\A j \in 1..Len(jobs) : ~JobSettles(j)) =>
        \/ fs' = fs
        \/ \E p \in FilePaths : fs' = [fs EXCEPT ![p] = 0]

\* C11: compressFile writes the file if and only if the transcoder output is
\* strictly smaller than the size obtained by stat, and then the size on disk
\* after the write equals the reported compressedSize; a task that ends as
\* skipped, as success without gain, or with an error raised by stat, read or
\* transcode issues no write and leaves the file's bytes unchanged.
C11_WriteIffSmaller ==
    [][/\ \A j \in 1..Len(jobs) : \A n \in AllOutputs :
              TranscodeDone(j, n) =>
                  (jobs'[j].pc = "write" <=> n < jobs[j].originalSize)
       /\ \A j \in 1..Len(jobs) :
              JobSettles(j) =>
                  LET r == ReportedIn(jobs[j].batch)
                  IN  IF jobs[j].pc = "write"
                      THEN r.status = "success" =>
                               /\ r.savedBefore > 0
                               /\ fs' = [fs EXCEPT ![jobs[j].file] = r.compressedSize]
                      ELSE /\ fs' = fs
                           /\ r.status = "success" => r.savedBefore = 0
       /\ OnlyJobsWrite]_vars

\* C11 witness: one task has written its file, which now has the reported
\* size, and another task of the same run ended without gain and left its
\* file at the original size.
C11_Witness ==
    \E b1, b2 \in 1..Len(batches) :
        /\ \E k \in 1..Len(batches[b1].emitted) :
               LET r == batches[b1].emitted[k].result
               IN  r.status = "success" /\ r.savedBefore > 0 /\ fs[r.filePath] = r.compressedSize
        /\ \E k \in 1..Len(batches[b2].emitted) :
               LET r == batches[b2].emitted[k].result
               IN  /\ r.status = "success" /\ r.savedBefore = 0
                   /\ fs[r.filePath] = r.originalSize

\* Every CompressionResult sent so far, by any batch.
AllResults ==
    UNION {{batches[b].emitted[k].result : k \in 1..Len(batches[b].emitted)} :
              b \in 1..Len(batches)}

\* The classification table for one result.
TableRow(r) ==
    /\ 0 <= r.compressedSize /\ r.compressedSize <= r.originalSize
    /\ r.savedBefore = r.originalSize - r.compressedSize
    /\ r.status \in {"success", "skipped", "error"}
    /\ r.status = "success" =>
           \/ r.savedBefore > 0
           \/ r.compressedSize = r.originalSize /\ r.savedBefore = 0
    /\ r.status = "skipped" => r.compressedSize = r.originalSize /\ r.savedBefore = 0
    /\ r.status = "error" => r.compressedSize = 0 /\ r.savedBefore = 0 /\ r.error # ""
    /\ r.savedBefore > 0 => r.status = "success"

\* C12: every CompressionResult emitted satisfies the classification table:
\* 0 <= compressedSize <= originalSize and savedBefore = originalSize -
\* compressedSize; a success either saved bytes or reports compressedSize =
\* originalSize with savedBefore = 0; a skipped result reports compressedSize =
\* originalSize and savedBefore = 0; an error reports compressedSize = 0,
\* savedBefore = 0 and a message; only a success has savedBefore > 0.
C12_ClassificationTable == \A r \in AllResults : TableRow(r)

\* C12 witness: a skipped result, an error and a success that saved bytes
\* have all been emitted.
C12_Witness ==
    /\ \E r \in AllResults : r.status = "skipped"
    /\ \E r \in AllResults : r.status = "error"
    /\ \E r \in AllResults : r.status = "success" /\ r.savedBefore > 0

\* C13: an item that fails at stat reports an Error result with originalSize =
\* 0 and compressedSize = 0; an item that fails after its file was read, in
\* the transcoder or in the write, reports an Error result whose originalSize
\* is the size obtained by stat.
C13_ErrorSizes ==
    [][\A j \in 1..Len(jobs) :
           JobSettles(j) /\ ReportedIn(jobs[j].batch).status = "error" =>
               LET r == ReportedIn(jobs[j].batch)
               IN  /\ jobs[j].pc = "stat" => r.originalSize = 0 /\ r.compressedSize = 0
                   /\ jobs[j].pc \in {"transcode", "write"} =>
                          r.originalSize = jobs[j].originalSize]_vars

\* The rows of the rendered list that show status Processing.
ProcessingRows == {k \in 1..Len(files) : files[k].status = "processing"}

\* C14: a QueueItem becomes Processing only when the scheduler dispatches its
\* job, so at no instant do more than 3 QueueItems of the working set have
\* status Processing.
C14_ProcessingCeiling == Cardinality(ProcessingRows) <= Concurrency

TerminalStatuses == {"success", "skipped", "error"}

\* C15: a QueueItem's status only moves pending -> processing -> terminal:
\* once a row has a terminal status no later step changes its status or its
\* sizes, and a row is never set back to pending or processing.
C15_TerminalIsFinal ==
    [][\A k \in 1..Len(files) : \A m \in 1..Len(files') :
           files'[m].id = files[k].id =>
               /\ files[k].status \in TerminalStatuses => files'[m] = files[k]
               /\ files[k].status = "processing" => files'[m].status # "pending"]_vars

\* The entries of a request that are non-blank strings, in order.
RECURSIVE NonBlankStrings(_)
NonBlankStrings(paths) ==
    IF paths = <<>> THEN <<>>
    ELSE (IF Head(paths) \in {"", " ", "#null"} THEN <<>> ELSE <<Head(paths)>>)
         \o NonBlankStrings(Tail(paths))

\* C16: a compress-files request whose list is empty or holds only non-string
\* or blank entries is answered with 'No valid file paths provided', dispatches
\* no job and emits no event; of a list that also has valid entries the
\* invalid ones are dropped and the valid ones are processed.
C16_ValidationOnly ==
    \A b \in 1..Len(batches) :
        IF NonBlankStrings(batches[b].paths) = <<>>
        THEN /\ batches[b].pc = "answered"
             /\ batches[b].response = "No valid file paths provided"
             /\ batches[b].emitted = <<>>
             /\ \A j \in 1..Len(jobs) : jobs[j].batch # b
        ELSE /\ batches[b].response # "No valid file paths provided"
             /\ batches[b].filePaths = NonBlankStrings(batches[b].paths)
             /\ batches[b].pc \in {"running", "answered"} =>
                    batches[b].allFiles = NonBlankStrings(batches[b].paths)
             /\ batches[b].pc = "answered" =>
                    \A p \in Range(NonBlankStrings(batches[b].paths)) : EventsFor(b, p) >= 1

\* C16 witness: a request of blank and non-string entries was refused, and a
\* request with two images among invalid entries was processed to the end.
C16_Witness ==
    \E b1, b2 \in 1..Len(batches) :
        /\ batches[b1].paths = <<"", "#null", " ">>
        /\ batches[b1].response = "No valid file paths provided"
        /\ batches[b2].paths = <<"", "b.jpg", "#null", "e.png">>
        /\ batches[b2].response = "ok"
        /\ Len(batches[b2].emitted) = 2

\* The files whose lower-cased extension is .png, .jpg or .jpeg.
SupportedFiles == {p \in FilePaths : ExtName(p) \in {".png", ".jpg", ".jpeg"}}

\* C17: every entry of an expanded list, the result of scan-paths as well as
\* the list processFiles schedules and counts in total, is a file with
\* extension .png, .jpg or .jpeg: no directory and no unsupported file is in
\* it, and an unsupported file never appears in a progress event.
C17_OnlySupportedFiles ==
    /\ \A c \in 1..Len(calls) : Range(calls[c].allImagePaths) \subseteq SupportedFiles
    /\ \A b \in 1..Len(batches) :
           /\ Range(batches[b].allFiles) \subseteq SupportedFiles
           /\ \A k \in 1..Len(batches[b].emitted) :
                  batches[b].emitted[k].result.filePath \in SupportedFiles

\* The supported files on disk f that an input list names directly or through
\* a directory.
ReachableImages(f, inputPaths) ==
    {p \in SupportedFiles :
        /\ f[p] > 0
        /\ \/ p \in Range(inputPaths)
           \/ \E d \in Range(inputPaths) \cap Dirs : p \in Range(DirEntries(d))}

\* C18: during path expansion a stat failure on one input path never aborts
\* the expansion: the failing path is left out and every other supported file
\* reachable from the inputs is in the output, in the scan-paths handler and
\* in the walk processFiles performs before scheduling.
C18_ExpansionNeverAborts ==
    [][/\ \A c \in 1..Len(calls) :
              calls[c].pc = "scan" /\ calls'[c].pc = "scanned" =>
                  ReachableImages(fs, calls[c].inputPaths) \subseteq Range(calls'[c].allImagePaths)
       /\ \A b \in 1..Len(batches) :
              batches[b].pc = "expand" /\ batches'[b] # batches[b] =>
                  /\ batches'[b].pc \in {"expand", "running", "answered"}
                  /\ batches'[b].pc = "answered" => batches'[b].response = "ok"
                  /\ ReachableImages(fs, <<batches[b].filePaths[batches[b].i]>>)
                         \subseteq Range(batches'[b].allFiles)]_vars

\* The entries of candidates that are not in known, in the order of candidates.
RECURSIVE NotKnown(_, _)
NotKnown(candidates, known) ==
    IF candidates = <<>> THEN <<>>
    ELSE (IF Head(candidates) \in known THEN <<>> ELSE <<Head(candidates)>>)
         \o NotKnown(Tail(candidates), known)

\* C19: for the candidate list C returned by scanPaths and the known set K
\* (the paths of filesRef at admission), addFilesToQueue admits exactly the
\* entries of C not in K, in the order of C, reports duplicateCount = |C| -
\* |admitted|, registers every admitted path in filesRef in the same step, and
\* when nothing is admitted creates no item and starts no processing.
C19_AdmitExactlyNew ==
    [][\A c \in 1..Len(calls) :
           calls[c].pc = "scanned" /\ calls'[c].pc = "done" =>
               LET candidates == calls[c].allImagePaths
                   known == {filesRef[k].path : k \in 1..Len(filesRef)}
                   admitted == calls'[c].newPaths
                   duplicateCount == Len(candidates) - Len(admitted)
               IN  /\ admitted = NotKnown(candidates, known)
                   /\ calls'[c].toast = IF duplicateCount > 0 THEN duplicateCount ELSE -1
                   /\ {filesRef'[k].path : k \in 1..Len(filesRef')} = known \cup Range(admitted)
                   /\ Len(filesRef') = Len(filesRef) + Len(admitted)
                   /\ IF admitted = <<>>
                      THEN /\ filesRef' = filesRef
                           /\ updates' = updates
                           /\ batches' = batches
                      ELSE /\ Len(batches') = Len(batches) + 1
                           /\ batches'[Len(batches')].paths = admitted]_vars

\* C19 witness: of the scanned candidates d/a.png, b.jpg, e.png the call
\* admitted d/a.png and e.png, in that order, and reported one duplicate.
C19_Witness ==
    \E c \in 1..Len(calls) :
        /\ calls[c].pc = "done"
        /\ calls[c].allImagePaths = <<"d/a.png", "b.jpg", "e.png">>
        /\ calls[c].newPaths = <<"d/a.png", "e.png">>
        /\ calls[c].toast = 1
        /\ {filesRef[k].path : k \in 1..Len(filesRef)} = {"d/a.png", "b.jpg", "e.png"}

\* What a click on Clear changes: the ref is emptied, the current listener is
\* detached, and the main process and the disk are left alone.
ClearFrame ==
    /\ filesRef' = <<>>
    /\ unlistenRef' = 0
    /\ listeners' = listeners \ {unlistenRef}
    /\ UNCHANGED <<fs, batches, jobs, limitQueue, activeCount, channel>>

\* Once the updaters queued by Clear are rendered the list is empty and
\* isProcessing is reset.
ClearedWhenRendered ==
    clicks.clear > 0 /\ updates = <<>> => files = <<>> /\ filesRef = <<>> /\ ~isProcessing

\* The tasks of one drop of four images.
QueueJobs == 1..4

\* C20: a Clear only empties the working set, resets isProcessing and
\* detaches the progress listener; every job dispatched or queued by the
\* earlier compress-files call still runs to a terminal result after it.
C20_ClearLeavesJobsRunning ==
    /\ []ClearedWhenRendered
    /\ [][clicks'.clear > clicks.clear => ClearFrame]_vars
    /\ \A j \in QueueJobs :
           (clicks.clear > 0 /\ Len(jobs) >= j) ~> (Len(jobs) >= j /\ jobs[j].pc = "done")

\* C20 witness: the list was cleared and rendered empty while one job is
\* about to overwrite its still untouched file and another is still queued.
C20_Witness ==
    /\ clicks.clear = 1
    /\ files = <<>> /\ filesRef = <<>> /\ updates = <<>>
    /\ \E j \in 1..Len(jobs) : jobs[j].pc = "write" /\ fs[jobs[j].file] = MaxSize
    /\ \E j \in 1..Len(jobs) : jobs[j].pc = "queued"

\* Task j has been started by the limiter.
Started(j) == jobs[j].pc # "queued"

\* C21: jobs are started in the order in which they were handed to the
\* limiter: a task is never started while a task handed over before it is
\* still waiting, within a batch and across overlapping batches, and the
\* queue holds the waiting tasks in that order.
C21_FifoStart ==
    /\ \A i, j \in 1..Len(jobs) : i < j /\ Started(j) => Started(i)
    /\ \A k \in 1..Len(limitQueue) :
           /\ ~Started(limitQueue[k])
           /\ k < Len(limitQueue) => limitQueue[k] < limitQueue[k + 1]

\* C21 as stated: when batches overlap, no waiting job of a later
\* processFiles call is started while a job of an earlier call is waiting.
C21_AsStated ==
    [][\A i, j \in 1..Len(jobs) :
           /\ jobs[i].batch < jobs[j].batch
           /\ ~Started(i) /\ ~Started(j)
           /\ jobs'[j].pc # "queued"
           => jobs'[i].pc # "queued"]_vars

\* C21 witness: tasks of two batches are in the limiter, a task that had to
\* wait has been started, and the head of the queue belongs to another batch
\* than the first task.
C21_Witness ==
    /\ limitQueue # <<>>
    /\ jobs[Head(limitQueue)].batch # jobs[1].batch
    /\ \E j \in 1..Len(jobs) : j > Concurrency /\ Started(j) /\ jobs[j].pc # "done"

\* The tasks handed to the limiter and not yet started.
Waiting == {j \in 1..Len(jobs) : jobs[j].pc = "queued"}

\* C22: the pool is work-conserving: when a job finishes while a submitted
\* job is waiting, the next waiting job is started at once, so a waiting job
\* exists only while exactly 3 jobs are in flight.
C22_WorkConserving ==
    /\ Waiting = Range(limitQueue)
    /\ Waiting # {} => Cardinality(InFlight) = Concurrency

\* C22 witness: a job has finished, another job is still waiting, and three
\* jobs are in flight.
C22_Witness ==
    /\ Waiting # {}
    /\ \E j \in 1..Len(jobs) : jobs[j].pc = "done"
    /\ Cardinality(InFlight) = Concurrency

\* The tasks of batch b that have built their sharp pipeline.
PipelinesOf(b) == {j \in 1..Len(jobs) : jobs[j].batch = b /\ jobs[j].options # NoOptions}

\* C23: every item of a batch is compressed with the CompressionOptions that
\* were current when processNewFiles invoked compressFiles for the batch: the
\* request carries the mode and quality of that moment, they never change
\* afterwards, and every task of the batch builds its pipeline from them,
\* whatever the controls show by then.
C23_SameOptionsPerBatch ==
    /\ [](\A b \in 1..Len(batches) : \A j \in PipelinesOf(b) :
              jobs[j].options = batches[b].options)
    /\ [][\A b \in 1..Len(batches) :
              /\ batches[b].pc = "listen" /\ batches'[b].pc # "listen"
                 => batches'[b].options = optionsRef
              /\ batches[b].pc # "listen" => batches'[b].options = batches[b].options]_vars

\* The mode or the quality was changed after a batch was invoked, and a task
\* of that batch built its pipeline afterwards, next to a batch invoked with
\* other options.
C23_Witness ==
    \E b, c \in 1..Len(batches) :
        /\ batches[b].pc # "listen" /\ batches[c].pc # "listen"
        /\ batches[b].options # batches[c].options
        /\ batches[b].options # optionsRef /\ batches[c].options # optionsRef
        /\ PipelinesOf(b) # {} /\ PipelinesOf(c) # {}

\* C24: isProcessing tells whether work is outstanding: whenever the rendered
\* flag is false, no rendered QueueItem is in Processing; in particular the
\* completion of one of two overlapping batches does not clear the flag while
\* the other is unfinished.
C24_IdleMeansNoneProcessing ==
    ~isProcessing => \A k \in 1..Len(files) : files[k].status # "processing"

\* The handler has answered batch b with {success: false}.
Rejected(b) == batches[b].pc = "answered" /\ batches[b].response # "ok"

\* C25: compress-files answers {success: true} only after every progress
\* event of the batch has been sent, the event with done = total included, and
\* sends none afterwards; a batch that fails during expansion is answered
\* {success: false} without a job dispatched or an event emitted.
C25_AnswerAfterEvents ==
    /\ [](\A b \in 1..Len(batches) :
              /\ batches[b].response = "ok" =>
                     /\ batches[b].sent = batches[b].total
                     /\ Len(batches[b].emitted) = batches[b].total
                     /\ batches[b].total > 0 =>
                            batches[b].emitted[batches[b].total].done = batches[b].total
                     /\ \A j \in 1..Len(jobs) : jobs[j].batch = b => jobs[j].pc = "done"
              /\ Rejected(b) =>
                     /\ batches[b].emitted = <<>> /\ batches[b].sent = 0
                     /\ \A j \in 1..Len(jobs) : jobs[j].batch # b)
    /\ [][\A b \in 1..Len(batches) :
              batches[b].pc = "answered" => batches'[b] = batches[b]]_vars

\* One batch of two files has been answered {success: true} and another has
\* been rejected because a path of its request was gone.
C25_Witness ==
    \E b, c \in 1..Len(batches) :
        /\ batches[b].response = "ok" /\ batches[b].total = 2
        /\ batches[c].response = "ENOENT"

RECURSIVE FirstId(_)
\* The id of the first QueueItem admitted with batch b: ids are handed out in
\* the order of admission, one per path of a batch.
FirstId(b) == IF b = 1 THEN 1 ELSE FirstId(b - 1) + Len(batches[b - 1].paths)

\* The batch a QueueItem was admitted with.
OwnerOf(id) ==
    CHOOSE b \in 1..Len(batches) : FirstId(b) <= id /\ id < FirstId(b) + Len(batches[b].paths)

\* C26: a progress event changes only items of the batch it belongs to: a
\* rendered QueueItem with a terminal status has an event of its own batch
\* for its path, also when it was submitted after Clear while an earlier
\* batch was still sending events.
C26_OwnEventsOnly ==
    \A k \in 1..Len(files) :
        files[k].status \in TerminalStatuses =>
            EventsFor(OwnerOf(files[k].id), files[k].path) >= 1

\* C27: after any sequence of window closures and creations the IPC handlers
\* are registered exactly once, and the progress events of a batch are sent
\* to the window that exists when they are produced: every event of a batch
\* submitted from the open window has been handed to that window.
C27_EventsReachOpenWindow ==
    /\ handlers = 1
    /\ \A b \in 1..Len(batches) :
           batches[b].window = mainWindow => batches[b].sent = Len(batches[b].emitted)
====
